---------------------------- MODULE Spec2Model ----------------------------
(***************************************************************************)
(* Model of src/app.py: the POST /upload handler of the Firebase Storage   *)
(* upload relay, run by concurrent request workers against one bucket.     *)
(*                                                                         *)
(* Strings the handler computes with (filenames, folders, form values,     *)
(* digests, storage paths) are sequences of one-character strings, so that *)
(* rsplit, lower, strip and the path formatting are computed as Python     *)
(* computes them.  Texts that are only returned (messages) are strings.    *)
(* An uploaded body is unit repeated reps times; its length is             *)
(* Len(unit) * reps, which lets a 100 MiB body be written down.            *)
(* The declared content type is passed through untouched and is left out.  *)
(***************************************************************************)
EXTENDS Integers, Sequences, FiniteSets, TLC

\* ------------------------------------------------------------------ bounds
\* Requests received in all, under Spec and SpecDedup / under SpecWide.
MaxRequests == 2
MaxWideRequests == 1

\* Two request workers run the handler concurrently.
Workers == {"w1", "w2"}

\* ----------------------------------------------------------- configuration
ALLOWED_EXTENSIONS ==
    { <<"j","p","g">>, <<"j","p","e","g">>, <<"m","p","4">> }

MAX_FILE_SIZE == 100 * 1024 * 1024

\* --------------------------------------------------------- Python strings
Uppers ==
    <<"A","B","C","D","E","F","G","H","I","J","K","L","M",
      "N","O","P","Q","R","S","T","U","V","W","X","Y","Z">>

Lowers ==
    <<"a","b","c","d","e","f","g","h","i","j","k","l","m",
      "n","o","p","q","r","s","t","u","v","w","x","y","z">>

lower_char(c) ==
    IF \E i \in 1..Len(Uppers) : Uppers[i] = c
    THEN Lowers[CHOOSE i \in 1..Len(Uppers) : Uppers[i] = c]
    ELSE c

\* str.lower()
lower(s) == [i \in 1..Len(s) |-> lower_char(s[i])]

\* c in s
contains(s, c) == \E i \in 1..Len(s) : s[i] = c

\* s.rsplit('.', 1)[1], for s that contains a '.'
rsplit_last(s) ==
    LET dot == CHOOSE i \in 1..Len(s) :
                   /\ s[i] = "."
                   /\ \A j \in (i+1)..Len(s) : s[j] # "."
    IN  SubSeq(s, dot + 1, Len(s))

\* s.strip(chars): drop the leading and the trailing characters in chars
strip(s, chars) ==
    LET keep == { i \in 1..Len(s) : s[i] \notin chars }
    IN  IF keep = {}
        THEN << >>
        ELSE LET first == CHOOSE i \in keep : \A j \in keep : i <= j
                 last  == CHOOSE i \in keep : \A j \in keep : j <= i
             IN  SubSeq(s, first, last)

Whitespace == { " " }

\* ------------------------------------------------------------ uploaded body
body_size(b) == Len(b.unit) * b.reps

BodyAbc     == [unit |-> <<"a","b","c">>, reps |-> 1]
BodyMax     == [unit |-> <<"0">>, reps |-> MAX_FILE_SIZE]
BodyTooBig  == [unit |-> <<"0">>, reps |-> MAX_FILE_SIZE + 1]

\* hashlib.sha256(data).hexdigest(), tabulated for the bodies of the model
sha256_hexdigest(b) ==
    CASE b = BodyAbc ->
           <<"b","a","7","8","1","6","b","f","8","f","0","1","c","f","e","a",
             "4","1","4","1","4","0","d","e","5","d","a","e","2","2","2","3",
             "b","0","0","3","6","1","a","3","9","6","1","7","7","a","9","c",
             "b","4","1","0","f","f","6","1","f","2","0","0","1","5","a","d">>
      [] b = BodyMax ->
           <<"2","0","4","9","2","a","4","d","0","d","8","4","f","8","b","e",
             "b","1","7","6","7","f","6","6","1","6","2","2","9","f","8","5",
             "d","4","4","c","2","8","2","7","b","6","4","b","d","b","f","b",
             "2","6","0","e","e","1","2","f","a","1","1","0","9","e","0","e">>
      [] b = BodyTooBig ->
           <<"7","f","1","2","a","2","a","c","8","c","c","1","2","3","7","1",
             "1","b","9","2","c","2","0","e","2","2","5","8","3","e","a","a",
             "4","9","5","8","2","c","5","2","a","8","c","1","f","3","0","5",
             "0","f","8","1","d","d","1","a","a","6","5","9","1","0","0","7">>

\* ------------------------------------------------------------------ inputs
\* What the form holds for a field the client did not send.
NoField == <<"<", "a", "b", "s", "e", "n", "t", ">">>

FileNames ==
    { << >>,
      <<"p">>,
      <<"p",".","p","n","g">>,
      <<"p",".","J","P","G">>,
      <<".",".","/","q",".","j","p","g">> }

Bodies == { BodyAbc, BodyMax, BodyTooBig }

Folders == { NoField, <<" ">>, <<"/">>, <<" ","/","t","/">> }

UseOriginalNameFields == { NoField, <<"T","r","u","e">> }

\* Every combination of the inputs: the requests of SpecWide.
WideRequests ==
    [ has_file : {TRUE}, filename : FileNames, body : Bodies,
      folder : Folders, use_original_name : UseOriginalNameFields ]
    \cup
    [ has_file : {FALSE}, filename : {<< >>}, body : {BodyAbc},
      folder : Folders, use_original_name : UseOriginalNameFields ]

\* The requests of Spec: two accepted filenames with the same extension and
\* one rejected, two bodies, both naming modes; a folder comes only with the
\* small body in dedup mode.
Requests ==
    { r \in [ has_file : {TRUE},
              filename : { <<"p",".","J","P","G">>,
                           <<".",".","/","q",".","j","p","g">>,
                           <<"p",".","p","n","g">> },
              body : { BodyAbc, BodyMax },
              folder : { NoField, <<" ","/","t","/">> },
              use_original_name : UseOriginalNameFields ] :
        /\ r.body = BodyMax => r.filename = <<"p",".","J","P","G">>
        /\ r.filename = <<"p",".","p","n","g">> =>
               r.use_original_name = NoField
        /\ r.folder # NoField =>
               /\ r.body = BodyAbc
               /\ r.use_original_name = NoField
               /\ r.filename # <<"p",".","p","n","g">> }

\* request.form.get(name, default)
form_get(field, default) == IF field = NoField THEN default ELSE field

\* ----------------------------------------------------------------- helpers
\* allowed_file without the .lower(): upper-case extensions are refused.
allowed_file_case_sensitive(filename) ==
    /\ contains(filename, ".")
    /\ rsplit_last(filename) \in ALLOWED_EXTENSIONS

allowed_file(filename) ==
    /\ contains(filename, ".")
    /\ lower(rsplit_last(filename)) \in ALLOWED_EXTENSIONS

\* The size check with >= for >: a body of exactly the ceiling is refused.
file_too_large_inclusive(file_size) == file_size >= MAX_FILE_SIZE

file_too_large(file_size) == file_size > MAX_FILE_SIZE

\* Lines 68-88: the error of a rejected request, "" for an accepted one.
validation_error(r) ==
    IF ~r.has_file THEN "No file provided"
    ELSE IF r.filename = << >> THEN "No file selected"
    ELSE IF ~allowed_file(r.filename)
         THEN "File type not allowed. Only jpg, jpeg, and mp4 are supported"
    ELSE IF file_too_large(body_size(r.body))
         THEN "File too large. Maximum size is 100.0MB"
    ELSE ""

use_original_name(r) ==
    lower(form_get(r.use_original_name, <<"f","a","l","s","e">>))
        = <<"t","r","u","e">>

original_filename(r) ==
    IF r.filename # << >> THEN r.filename ELSE <<"u","n","n","a","m","e","d">>

extension(r) ==
    IF contains(original_filename(r), ".")
    THEN lower(rsplit_last(original_filename(r)))
    ELSE << >>

\* The digest taken without rewinding the stream after the size check:
\* read() returns b'' and every body gets the digest of the empty string.
file_hash_unrewound(body) ==
    <<"e","3","b","0","c","4","4","2","9","8","f","c","1","c","1","4">>

file_hash(body) == SubSeq(sha256_hexdigest(body), 1, 16)

\* The dedup name taken from the client's filename, not from the content.
unique_filename_from_name(r) ==
    IF use_original_name(r)
    THEN original_filename(r)
    ELSE original_filename(r)

unique_filename(r) ==
    IF use_original_name(r)
    THEN original_filename(r)
    ELSE file_hash(r.body) \o <<".">> \o extension(r)

\* The part of the storage path that comes from the folder field.
folder_prefix(r) ==
    LET folder == strip(form_get(r.folder, << >>), Whitespace)
    IN  IF folder # << >>
        THEN strip(folder, {"/"}) \o <<"/">>
        ELSE << >>

storage_path(r) == folder_prefix(r) \o unique_filename(r)

\* The existence check made in both naming modes.
calls_exists_always(r) == TRUE

\* `not use_original_name and blob.exists()`: exists() is called only when
\* the left operand is true.
calls_exists(r) == ~use_original_name(r)

\* The dedup hit ignored: the body is uploaded again.
after_exists_reupload(found) == "put"

\* Where the handler goes once exists() has returned `found`.
after_exists(found) == IF found THEN "reload" ELSE "put"

\* blob.public_url is a function of the bucket and the blob's name.
public_url(key) == <<"https://storage.googleapis.com/bucket/">> \o key

\* ------------------------------------------------------------- bucket calls
blob_exists(s, key) == key \in DOMAIN s

\* upload_from_file writes a new object: the whole body, default (private) ACL.
upload_from_file(s, key, body) ==
    [k \in DOMAIN s \cup {key} |->
        IF k = key THEN [bytes |-> body, public |-> FALSE] ELSE s[k]]

make_public(s, key) == [s EXCEPT ![key].public = TRUE]

\* ------------------------------------------------------------------- state
VARIABLES
    store,      \* the bucket: storage path -> [bytes, public]
    clock,      \* number of requests received so far
    pc,         \* per worker: where its request stands
    req,        \* per worker: the request it is handling
    resp,       \* per worker: the response it returned
    calls,      \* per worker: the bucket calls its request has made, in order
    hadBlob     \* per worker: was a blob at its storage path on arrival

vars == <<store, clock, pc, req, resp, calls, hadBlob>>

NoRequest ==
    [ at |-> 0, has_file |-> FALSE, filename |-> << >>, body |-> BodyAbc,
      folder |-> NoField, use_original_name |-> NoField ]

NoResponse == [ at |-> 0, status |-> 0, body |-> [error |-> ""] ]

ErrorResponse(status, text) ==
    [ at |-> clock, status |-> status, body |-> [error |-> text] ]

SuccessResponse(r, text) ==
    [ at |-> clock, status |-> 200,
      body |-> [ success |-> TRUE, message |-> text,
                 data |-> [ filename |-> unique_filename(r),
                            storage_path |-> storage_path(r),
                            original_filename |-> original_filename(r),
                            size |-> body_size(r.body),
                            url |-> public_url(storage_path(r)) ] ] ]

\* The bucket outlives the process: it starts empty, or holding a blob that
\* an earlier run uploaded in dedup mode and published.
InitialBuckets ==
    { << >>,
      make_public(
          upload_from_file(<< >>, file_hash(BodyAbc) \o <<".","j","p","g">>,
                           BodyAbc),
          file_hash(BodyAbc) \o <<".","j","p","g">>) }

Init ==
    /\ store \in InitialBuckets
    /\ clock = 0
    /\ pc = [w \in Workers |-> "idle"]
    /\ req = [w \in Workers |-> NoRequest]
    /\ resp = [w \in Workers |-> NoResponse]
    /\ calls = [w \in Workers |-> << >>]
    /\ hadBlob = [w \in Workers |-> FALSE]

\* ----------------------------------------------------------------- actions
\* A request arrives: lines 67-121, up to the first bucket call.
Receive(w, r) ==
    /\ pc[w] \in {"idle", "done"}
    /\ clock' = clock + 1
    /\ req' = [req EXCEPT ![w] =
                  [ at |-> clock + 1, has_file |-> r.has_file,
                    filename |-> r.filename, body |-> r.body,
                    folder |-> r.folder,
                    use_original_name |-> r.use_original_name ]]
    /\ calls' = [calls EXCEPT ![w] = << >>]
    /\ IF validation_error(r) # ""
       THEN /\ pc' = [pc EXCEPT ![w] = "done"]
            /\ resp' = [resp EXCEPT ![w] =
                           [ at |-> clock + 1, status |-> 400,
                             body |-> [error |-> validation_error(r)] ]]
            /\ hadBlob' = [hadBlob EXCEPT ![w] = FALSE]
       ELSE /\ pc' = [pc EXCEPT ![w] =
                         IF calls_exists(r) THEN "exists" ELSE "put"]
            /\ resp' = [resp EXCEPT ![w] = NoResponse]
            /\ hadBlob' = [hadBlob EXCEPT ![w] =
                              blob_exists(store, storage_path(r))]
    /\ UNCHANGED store

\* Line 122: blob.exists() returns.
Exists(w) ==
    /\ pc[w] = "exists"
    /\ calls' = [calls EXCEPT ![w] = Append(@, "exists")]
    /\ pc' = [pc EXCEPT ![w] =
                 after_exists(blob_exists(store, storage_path(req[w])))]
    /\ UNCHANGED <<store, clock, req, resp, hadBlob>>

\* Lines 124-136: blob.reload() returns and the handler answers.
Reload(w) ==
    /\ pc[w] = "reload"
    /\ calls' = [calls EXCEPT ![w] = Append(@, "reload")]
    /\ resp' = [resp EXCEPT ![w] =
                   SuccessResponse(req[w], "File already exists")]
    /\ pc' = [pc EXCEPT ![w] = "done"]
    /\ UNCHANGED <<store, clock, req, hadBlob>>

\* Line 139: blob.upload_from_file() returns.
Put(w) ==
    /\ pc[w] = "put"
    /\ calls' = [calls EXCEPT ![w] = Append(@, "put")]
    /\ store' = upload_from_file(store, storage_path(req[w]), req[w].body)
    /\ pc' = [pc EXCEPT ![w] = "publish"]
    /\ UNCHANGED <<clock, req, resp, hadBlob>>

\* Lines 142-158: blob.make_public() returns and the handler answers.
Publish(w) ==
    /\ pc[w] = "publish"
    /\ blob_exists(store, storage_path(req[w]))
    /\ calls' = [calls EXCEPT ![w] = Append(@, "publish")]
    /\ store' = make_public(store, storage_path(req[w]))
    /\ resp' = [resp EXCEPT ![w] =
                   SuccessResponse(req[w], "File uploaded successfully")]
    /\ pc' = [pc EXCEPT ![w] = "done"]
    /\ UNCHANGED <<clock, req, hadBlob>>

\* Lines 160-161: the pending bucket call raises (bucket unreachable, timeout,
\* permission failure) and changes nothing in the bucket.
StoreError(w) ==
    /\ pc[w] \in {"exists", "reload", "put", "publish"}
    /\ calls' = [calls EXCEPT ![w] = Append(@, pc[w])]
    /\ resp' = [resp EXCEPT ![w] = ErrorResponse(500, pc[w])]
    /\ pc' = [pc EXCEPT ![w] = "done"]
    /\ UNCHANGED <<store, clock, req, hadBlob>>

Step(w) ==
    \/ Exists(w)
    \/ Reload(w)
    \/ Put(w)
    \/ Publish(w)
    \/ StoreError(w)

Next ==
    \E w \in Workers :
        \/ \E r \in Requests : clock < MaxRequests /\ Receive(w, r)
        \/ Step(w)

Spec == Init /\ [][Next]_vars

\* Every client uploads in dedup mode (use_original_name is never true).
NextDedup ==
    \E w \in Workers :
        \/ \E r \in Requests :
              /\ clock < MaxRequests
              /\ ~use_original_name(r)
              /\ Receive(w, r)
        \/ Step(w)

SpecDedup == Init /\ [][NextDedup]_vars

\* Requests drawn from every combination of the inputs.
NextWide ==
    \E w \in Workers :
        \/ \E r \in WideRequests : clock < MaxWideRequests /\ Receive(w, r)
        \/ Step(w)

SpecWide == Init /\ [][NextWide]_vars

\* ------------------------------------------------------------- vocabulary
Arrived(w) == pc[w] # "idle"

Done(w) == pc[w] = "done"

Status(w) == resp[w].status

\* The request passed validation (it was not answered 400).
Accepted(w) == Arrived(w) /\ Status(w) # 400

Key(w) == storage_path(req[w])

DedupMode(w) == ~use_original_name(req[w])

\* w's request was received in this step.
ReceivedNow(w) == req'[w].at # req[w].at

\* b's request was received after a's response was returned.
Successive(a, b) ==
    /\ a # b
    /\ Done(a)
    /\ Arrived(b)
    /\ req[b].at > resp[a].at

UploadedText == "File uploaded successfully"

AlreadyExistsText == "File already exists"

InvalidExtensionText ==
    "File type not allowed. Only jpg, jpeg, and mp4 are supported"

\* The filename ends in '.' and jpg, jpeg or mp4, in any letter case.
HasAllowedSuffix(f) ==
    \E e \in { <<"j","p","g">>, <<"j","p","e","g">>, <<"m","p","4">> } :
        /\ Len(f) > Len(e)
        /\ f[Len(f) - Len(e)] = "."
        /\ \A i \in 1..Len(e) : lower_char(f[Len(f) - Len(e) + i]) = e[i]

\* ---------------------------------------------------------------------- C1
\* Two successive dedup-mode uploads of the same bytes, the first answered
\* 200: the pair the claim is about.
SameContentPair(a, b) ==
    /\ Successive(a, b)
    /\ Status(a) = 200
    /\ DedupMode(a)
    /\ DedupMode(b)
    /\ Accepted(b)
    /\ req[a].body = req[b].body

SecondIsDedupHit(a, b) ==
    /\ Key(b) = resp[a].body.data.storage_path
    /\ (Done(b) /\ Status(b) # 500) =>
           /\ Status(b) = 200
           /\ resp[b].body.message = AlreadyExistsText
           /\ resp[b].body.data.url = resp[a].body.data.url

\* C1 as stated: two successive dedup-mode uploads of the same bytes compute
\* the same storage key whatever their filenames, extensions and folders, and
\* the second is answered 200 'already exists' with the first one's URL
\* (read in the claim's favour: unless a bucket call of the second raises).
C1_AnyNameExtensionFolder ==
    \A a, b \in Workers : SameContentPair(a, b) => SecondIsDedupHit(a, b)

\* C1 amended: the same holds when the two uploads also have the same
\* extension up to letter case and the same folder prefix; the original
\* filenames may differ.
C1_Idempotent ==
    \A a, b \in Workers :
        ( /\ SameContentPair(a, b)
          /\ extension(req[a]) = extension(req[b])
          /\ folder_prefix(req[a]) = folder_prefix(req[b]) )
        => SecondIsDedupHit(a, b)

C1_Witness ==
    \E a, b \in Workers :
        /\ SameContentPair(a, b)
        /\ extension(req[a]) = extension(req[b])
        /\ folder_prefix(req[a]) = folder_prefix(req[b])
        /\ req[a].filename # req[b].filename
        /\ resp[a].body.message = UploadedText
        /\ Done(b)
        /\ Status(b) = 200
        /\ resp[b].body.message = AlreadyExistsText

\* ---------------------------------------------------------------------- C2
\* C2: an original-name upload never calls exists() and is never answered
\* 'already exists'; of two successive original-name uploads with the same
\* filename and folder and different bytes, both answered 200, both are
\* 'uploaded' and the bucket then holds the second one's bytes under the key.
C2_OriginalNameOverwrites ==
    /\ \A w \in Workers :
           (Arrived(w) /\ ~DedupMode(w)) =>
               /\ ~contains(calls[w], "exists")
               /\ (Done(w) /\ Accepted(w)) => Status(w) \in {200, 500}
               /\ Status(w) = 200 => resp[w].body.message = UploadedText
    /\ \A a, b \in Workers :
           ( /\ Successive(a, b)
             /\ Done(b)
             /\ ~DedupMode(a)
             /\ ~DedupMode(b)
             /\ Status(a) = 200
             /\ Status(b) = 200
             /\ req[a].filename = req[b].filename
             /\ req[a].folder = req[b].folder )
           => /\ blob_exists(store, Key(b))
              /\ store[Key(b)].bytes = req[b].body

C2_Witness ==
    \E a, b \in Workers :
        /\ Successive(a, b)
        /\ Done(b)
        /\ ~DedupMode(a)
        /\ ~DedupMode(b)
        /\ Status(a) = 200
        /\ Status(b) = 200
        /\ req[a].filename = req[b].filename
        /\ req[a].folder = req[b].folder
        /\ req[a].body # req[b].body
        /\ store[Key(b)].bytes = req[b].body

\* ---------------------------------------------------------------------- C3
\* The request is a client input error: no file field, empty filename,
\* extension outside {jpg, jpeg, mp4}, or more than 100 MiB.
ClientInputError(r) ==
    \/ ~r.has_file
    \/ r.filename = << >>
    \/ ~HasAllowedSuffix(r.filename)
    \/ body_size(r.body) > 100 * 1024 * 1024

\* C3: a request is answered 400 exactly when it is a client input error (so
\* a body of exactly 100 MiB is not rejected for its size); the 400 is
\* returned in the step that receives the request, with no bucket call made
\* and the bucket unchanged, and no bucket call follows it.
C3_ValidationPrecedesStore ==
    [][ \A w \in Workers :
          /\ ReceivedNow(w) =>
                /\ ClientInputError(req'[w]) <=> resp'[w].status = 400
                /\ resp'[w].status = 400 =>
                      /\ calls'[w] = << >>
                      /\ pc'[w] = "done"
                      /\ store' = store
          /\ (Status(w) = 400 /\ ~ReceivedNow(w)) => calls'[w] = << >>
      ]_vars

C3_Witness ==
    \E w \in Workers :
        /\ Done(w)
        /\ Status(w) = 400
        /\ req[w].has_file
        /\ HasAllowedSuffix(req[w].filename)
        /\ body_size(req[w].body) = 100 * 1024 * 1024 + 1
        /\ calls[w] = << >>

\* A body of exactly 100 MiB got past validation.
C3_WitnessAtCeiling ==
    \E w \in Workers :
        /\ Accepted(w)
        /\ body_size(req[w].body) = 100 * 1024 * 1024

\* ---------------------------------------------------------------------- C4
ExtensionVerdict(w) ==
    /\ ~HasAllowedSuffix(req[w].filename) =>
           /\ Status(w) = 400
           /\ resp[w].body.error = InvalidExtensionText
    /\ HasAllowedSuffix(req[w].filename) =>
           ~(Status(w) = 400 /\ resp[w].body.error = InvalidExtensionText)

\* C4 as stated: every uploaded filename without an allowed suffix is
\* answered 400 with the invalid-extension error, and every filename with one
\* passes the extension check.
C4_EveryFilename ==
    \A w \in Workers :
        (Arrived(w) /\ req[w].has_file) => ExtensionVerdict(w)

\* C4 amended: the same for every non-empty filename (the empty filename is
\* answered 400 'No file selected' before the extension is looked at).
C4_NonEmptyFilename ==
    \A w \in Workers :
        (Arrived(w) /\ req[w].has_file /\ req[w].filename # << >>)
        => ExtensionVerdict(w)

C4_Witness ==
    \E w \in Workers :
        /\ Arrived(w)
        /\ req[w].has_file
        /\ req[w].filename = <<"p",".","p","n","g">>
        /\ body_size(req[w].body) > 100 * 1024 * 1024
        /\ use_original_name(req[w])
        /\ Status(w) = 400
        /\ resp[w].body.error = InvalidExtensionText

\* An upper-case suffix passes the extension check.
C4_WitnessUpperCase ==
    \E w \in Workers :
        /\ req[w].filename = <<"p",".","J","P","G">>
        /\ Accepted(w)

\* ---------------------------------------------------------------------- C5
\* C5 (all uploads in dedup mode, any interleaving): whenever a blob is
\* stored under the key of an accepted request, its bytes are that request's
\* bytes, whole; and a request no bucket call of which raised ends with 200
\* and the blob in place.
C5_RacingWritersAgree ==
    \A w \in Workers :
        Accepted(w) =>
            /\ blob_exists(store, Key(w)) =>
                   store[Key(w)].bytes = req[w].body
            /\ (Done(w) /\ Status(w) # 500) =>
                   /\ Status(w) = 200
                   /\ blob_exists(store, Key(w))

\* Both workers raced past the existence check and both uploaded.
C5_Witness ==
    \E a, b \in Workers :
        /\ a # b
        /\ Done(a)
        /\ Done(b)
        /\ Key(a) = Key(b)
        /\ calls[a] = <<"exists", "put", "publish">>
        /\ calls[b] = <<"exists", "put", "publish">>
        /\ Status(a) = 200
        /\ Status(b) = 200
        /\ store[Key(a)].bytes = req[a].body

\* ---------------------------------------------------------------------- C6
\* C6 as stated, for the blobs the request wrote itself: a request answered
\* 500 has left no blob under its storage key that was not there before it.
C6_FailedUploadLeavesNoBlob ==
    \A w \in Workers :
        ( /\ Done(w)
          /\ Status(w) = 500
          /\ ~hadBlob[w]
          /\ contains(calls[w], "put") )
        => ~blob_exists(store, Key(w))

\* ---------------------------------------------------------------------- C7
\* The characters of the key that come before the file's name.
KeyPrefix(w) == SubSeq(Key(w), 1, Len(Key(w)) - Len(unique_filename(req[w])))

\* C7 as stated: the key of an accepted upload is [folder/]name with no
\* leading slash, no trailing slash and no empty segment in the folder part.
C7_StorageKeyForm ==
    \A w \in Workers :
        Accepted(w) =>
            /\ Key(w) = KeyPrefix(w) \o unique_filename(req[w])
            /\ Key(w)[1] # "/"
            /\ Key(w)[Len(Key(w))] # "/"
            /\ KeyPrefix(w) # << >> => KeyPrefix(w)[Len(KeyPrefix(w))] = "/"
            /\ \A i \in 1..(Len(KeyPrefix(w)) - 1) :
                   ~(KeyPrefix(w)[i] = "/" /\ KeyPrefix(w)[i + 1] = "/")

\* ---------------------------------------------------------------------- C8
\* C8 as stated: in original-name mode the name part of the key has no '..'
\* segment and no path separator, and keeps the filename's extension.
C8_SanitizedOriginalName ==
    \A w \in Workers :
        (Accepted(w) /\ ~DedupMode(w)) =>
            LET name == unique_filename(req[w])
            IN  /\ ~contains(name, "/")
                /\ ~contains(name, "\\")
                /\ ~\E i \in 1..(Len(name) - 1) :
                       /\ name[i] = "." /\ name[i + 1] = "."
                       /\ (i = 1 \/ name[i - 1] = "/")
                       /\ (i + 1 = Len(name) \/ name[i + 2] = "/")
                /\ contains(name, ".")
                /\ rsplit_last(name) = rsplit_last(req[w].filename)

\* ---------------------------------------------------------------------- C9
\* C9: in dedup mode, when exists() finds the blob the handler goes on to
\* reload, not to put; reload changes nothing in the bucket and, unless it
\* raises, the answer is 200 'already exists' after the calls exists, reload
\* alone; and a dedup-mode request reaches put only from an exists() that
\* found no blob.
C9_DedupHitSkipsTransfer ==
    [][ \A w \in Workers :
          /\ (pc[w] = "exists" /\ pc'[w] \notin {"exists", "done"}) =>
                /\ store' = store
                /\ blob_exists(store, Key(w)) => pc'[w] = "reload"
          /\ pc[w] = "reload" => pc'[w] \in {"reload", "done"}
          /\ (pc[w] = "reload" /\ pc'[w] = "done") =>
                /\ store' = store
                /\ resp'[w].status # 500 =>
                      /\ resp'[w].status = 200
                      /\ resp'[w].body.message = AlreadyExistsText
                      /\ calls'[w] = <<"exists", "reload">>
          /\ (DedupMode(w) /\ pc[w] # "put" /\ pc'[w] = "put"
                /\ ~ReceivedNow(w)) =>
                /\ pc[w] = "exists"
                /\ ~blob_exists(store, Key(w))
          /\ (ReceivedNow(w) /\ pc'[w] = "put") => use_original_name(req'[w])
      ]_vars

C9_Witness ==
    \E w \in Workers :
        /\ DedupMode(w)
        /\ Done(w)
        /\ Status(w) = 200
        /\ resp[w].body.message = AlreadyExistsText
        /\ calls[w] = <<"exists", "reload">>
        /\ blob_exists(store, Key(w))

\* --------------------------------------------------------------------- C10
\* C10 as stated: at the step that returns a 200 response, the blob under
\* the response's storage path is in the bucket and marked public.
C10_PublishedBeforeResponse ==
    [][ \A w \in Workers :
          (pc[w] # "done" /\ pc'[w] = "done" /\ resp'[w].status = 200) =>
              /\ blob_exists(store', resp'[w].body.data.storage_path)
              /\ store'[resp'[w].body.data.storage_path].public
      ]_vars

=============================================================================
